---------------------------- MODULE Spec2Model ----------------------------
(***************************************************************************)
(* Model of the AdvancedCronJob schedule formatter and validating          *)
(* admission handler (advancedcronjob_utils.go).                           *)
(*                                                                         *)
(* Go strings are sequences of one-character strings, so that substring    *)
(* search, case folding and concatenation are computed, not assumed.       *)
(* A Go pointer is a sequence of length 0 (nil) or 1 (the pointee).        *)
(***************************************************************************)
EXTENDS Integers, Sequences, FiniteSets, TLC

VARIABLES
    pc,          \* "call" before the operation under study has run, "return" after
    acj,         \* formatSchedule: the object whose schedule is formatted
    formatted,   \* formatSchedule: the returned string
    timeZone,    \* validateTimeZone: the *string argument
    ilpJobSpec,  \* validateImageListPullJobTemplateSpec: the template argument
    cronSpec,    \* validateAdvancedCronJobSpecTemplate: the spec argument
    updObj,      \* validateAdvancedCronJobUpdate: the new object
    updOldObj,   \* validateAdvancedCronJobUpdate: the old object
    req,         \* Handle: the admission request
    resp,        \* Handle: the admission response
    invoked,     \* Handle: the functions it invoked, in order
    allErrs      \* the field.ErrorList returned by the validator under study

vars == <<pc, acj, formatted, timeZone, ilpJobSpec, cronSpec, updObj, updOldObj, req, resp, invoked, allErrs>>

(* ------------------------------ bounds -------------------------------- *)

\* longest schedule string enumerated for the formatter
MaxSchedLen == 3

\* longest image list enumerated entry by entry (longer ones are built around MaxImages)
MaxShortImages == 2

(* --------------------------- Go primitives ---------------------------- *)

Nil == <<>>

Ptr(x) == <<x>>

Deref(p) == p[1]

\* strings.Contains
Contains(s, substr) == \E i \in 0..(Len(s) - Len(substr)) : SubSeq(s, i + 1, i + Len(substr)) = substr

LowerMap == [A |-> "a", C |-> "c", E |-> "e", L |-> "l", O |-> "o", T |-> "t", U |-> "u", Z |-> "z"]

UpperMap == [a |-> "A", c |-> "C", e |-> "E", l |-> "L", o |-> "O", t |-> "T", u |-> "U", z |-> "Z"]

ToLower(c) == IF c \in DOMAIN LowerMap THEN LowerMap[c] ELSE c

ToUpper(c) == IF c \in DOMAIN UpperMap THEN UpperMap[c] ELSE c

\* strings.EqualFold on ASCII text
EqualFold(s, t) == Len(s) = Len(t) /\ \A i \in 1..Len(s) : ToLower(s[i]) = ToLower(t[i])

StrTZ == <<"T", "Z">>

StrLocal == <<"L", "o", "c", "a", "l">>

StrUTC == <<"U", "T", "C">>

StrCET == <<"C", "E", "T">>

StrMars == <<"M", "a", "r", "s">>

\* zone names the time package resolves without consulting the zone database
BuiltinZones == {<<>>, StrUTC, StrLocal}

\* zone files present in the (case-sensitive) zone database
ZoneInfo == {StrUTC, StrCET}

\* time.LoadLocation: TRUE when the zone resolves (err == nil)
LoadLocation(name) == name \in BuiltinZones \/ name \in ZoneInfo

(* ------------------------- Schedule Formatter ------------------------- *)

\* plausible slip: the "already embeds TZ" guard is dropped
formatScheduleNoGuard(a) == IF a.Spec.TimeZone # Nil /\ LoadLocation(Deref(a.Spec.TimeZone)) THEN <<"T", "Z", "=">> \o Deref(a.Spec.TimeZone) \o <<" ">> \o a.Spec.Schedule ELSE a.Spec.Schedule

formatSchedule(a) ==
    IF Contains(a.Spec.Schedule, StrTZ)
    THEN a.Spec.Schedule
    ELSE IF a.Spec.TimeZone # Nil
         THEN IF ~LoadLocation(Deref(a.Spec.TimeZone))
              THEN a.Spec.Schedule
              ELSE <<"T", "Z", "=">> \o Deref(a.Spec.TimeZone) \o <<" ">> \o a.Spec.Schedule
         ELSE a.Spec.Schedule

(* ------------------------------ errors -------------------------------- *)

\* field.Invalid / field.Forbidden / field.Required
Invalid(path, msg) == [Type |-> "FieldValueInvalid", Field |-> path, Detail |-> msg]

Forbidden(path, msg) == [Type |-> "FieldValueForbidden", Field |-> path, Detail |-> msg]

Required(path, msg) == [Type |-> "FieldValueRequired", Field |-> path, Detail |-> msg]

MsgTimeZoneEmpty == "timeZone must be nil or non-empty string"

MsgTimeZoneLocal == "timeZone must be an explicit time zone as defined in https://www.iana.org/time-zones"

MsgUnknownTimeZone == "unknown time zone"

(* ------------------------- Timezone Validator ------------------------- *)

\* plausible slip: return after the "Local" rejection, like the empty-string branch
validateTimeZoneEarlyReturn(tz, fldPath) ==
    IF tz = Nil THEN <<>>
    ELSE IF Len(Deref(tz)) = 0 THEN <<Invalid(fldPath, MsgTimeZoneEmpty)>>
    ELSE IF EqualFold(Deref(tz), StrLocal) THEN <<Invalid(fldPath, MsgTimeZoneLocal)>>
    ELSE IF ~LoadLocation(Deref(tz)) THEN <<Invalid(fldPath, MsgUnknownTimeZone)>>
    ELSE <<>>

validateTimeZone(tz, fldPath) ==
    IF tz = Nil THEN <<>>
    ELSE IF Len(Deref(tz)) = 0 THEN <<Invalid(fldPath, MsgTimeZoneEmpty)>>
    ELSE (IF EqualFold(Deref(tz), StrLocal) THEN <<Invalid(fldPath, MsgTimeZoneLocal)>> ELSE <<>>)
         \o (IF ~LoadLocation(Deref(tz)) THEN <<Invalid(fldPath, MsgUnknownTimeZone)>> ELSE <<>>)

(* -------------------- Image-list sub-validation ----------------------- *)

MaxImages == 255

MaxActiveDeadLineSeconds == 3600 * 24

MaxTTLSecondsAfterFinished == 3600 * 24 * 3

Always == "Always"

Range(seq) == {seq[i] : i \in 1..Len(seq)}

ValidLabels == {"app=web"}

ValidExpressions == {"zone In (a)"}

\* metav1.LabelSelectorAsSelector: TRUE when the selector compiles (err == nil)
LabelSelectorAsSelector(ls) ==
    /\ ls.MatchLabels # Nil => Deref(ls.MatchLabels) \in ValidLabels
    /\ ls.MatchExpressions # Nil => Deref(ls.MatchExpressions) \in ValidExpressions

\* the n-th tag of one repository, a well-formed reference
TaggedImage(n) == "app:" \o ToString(n)

ValidImageRefs == {"nginx", "redis:6"} \cup {TaggedImage(n) : n \in 1..(MaxImages + 1)}

\* daemonutil.NormalizeImageRef: TRUE when the reference normalizes (err == nil)
NormalizeImageRef(image) == image \in ValidImageRefs

MsgNamesAndLabels == "can not set both names and labelSelector in this spec.selector"

MsgInvalidSelector == "invalid selector"

MsgDuplicatedName == "duplicated name in selector names"

MsgSelectorAndPodSelector == "can not set both selector and podSelector"

MsgImageEmpty == "image can not be empty"

MsgTooManyImages == "the maximum number of images cannot > 255"

MsgDuplicateImages == "images cannot have duplicate values"

MsgInvalidImage == "invalid image "

MsgActiveDeadline == "activeDeadlineSeconds must be less than 86400"

MsgDeadlineVsTimeout == "completionPolicy.activeDeadlineSeconds must be greater than pullPolicy.timeoutSeconds"

MsgTTL == "ttlSecondsAfterFinished must be less than 259200"

MsgCompletionType == "completionPolicy should be Always"

\* lines 243-258: the first violation of the selector rules, or none
selectorErrs(s, fldPath) ==
    IF s.Selector = Nil THEN <<>>
    ELSE LET sel == Deref(s.Selector)
             labelled == sel.MatchLabels # Nil \/ sel.MatchExpressions # Nil
         IN  IF labelled /\ sel.Names # Nil
             THEN <<Invalid(fldPath \o ".spec.selector", MsgNamesAndLabels)>>
             ELSE IF labelled /\ ~LabelSelectorAsSelector(sel)
             THEN <<Invalid(fldPath \o ".spec.selector.labelSelector", MsgInvalidSelector)>>
             ELSE IF sel.Names # Nil /\ Cardinality(Range(Deref(sel.Names))) # Len(Deref(sel.Names))
             THEN <<Invalid(fldPath \o ".spec.selector.names", MsgDuplicatedName)>>
             ELSE <<>>

\* lines 260-267: the first violation of the podSelector rules, or none
podSelectorErrs(s, fldPath) ==
    IF s.PodSelector = Nil THEN <<>>
    ELSE IF s.Selector # Nil
    THEN <<Invalid(fldPath \o ".spec", MsgSelectorAndPodSelector)>>
    ELSE IF ~LabelSelectorAsSelector(Deref(s.PodSelector))
    THEN <<Invalid(fldPath \o ".spec.podSelector.labelSelector", MsgInvalidSelector)>>
    ELSE <<>>

\* lines 277-283: some pair i < j holds the same image
hasDuplicateImage(images) == \E i \in 1..Len(images) : \E j \in (i + 1)..Len(images) : images[i] = images[j]

\* lines 269-289: the first violated image rule, or none
imagesErrs(s, fldPath) ==
    IF Len(s.Images) = 0
    THEN <<Invalid(fldPath \o ".spec.images", MsgImageEmpty)>>
    ELSE IF Len(s.Images) > MaxImages
    THEN <<Invalid(fldPath \o ".spec.images", MsgTooManyImages)>>
    ELSE IF hasDuplicateImage(s.Images)
    THEN <<Invalid(fldPath \o ".spec.images", MsgDuplicateImages)>>
    ELSE IF \E i \in 1..Len(s.Images) : ~NormalizeImageRef(s.Images[i])
    THEN LET first == CHOOSE i \in 1..Len(s.Images) :
                          /\ ~NormalizeImageRef(s.Images[i])
                          /\ \A j \in 1..(i - 1) : NormalizeImageRef(s.Images[j])
         IN  <<Invalid(fldPath \o ".spec.images", MsgInvalidImage \o s.Images[first])>>
    ELSE <<>>

\* lines 291-305: the switch on completionPolicy.type
completionPolicyErrs(s, fldPath) ==
    LET cp == s.CompletionPolicy
    IN  IF cp.Type = Always
        THEN IF cp.ActiveDeadlineSeconds # Nil /\ Deref(cp.ActiveDeadlineSeconds) > MaxActiveDeadLineSeconds
             THEN <<Invalid(fldPath \o ".spec.completionPolicy.activeDeadlineSeconds", MsgActiveDeadline)>>
             ELSE IF /\ cp.ActiveDeadlineSeconds # Nil
                     /\ s.PullPolicy # Nil
                     /\ Deref(s.PullPolicy).TimeoutSeconds # Nil
                     /\ Deref(Deref(s.PullPolicy).TimeoutSeconds) > Deref(cp.ActiveDeadlineSeconds)
             THEN <<Invalid(fldPath \o ".spec.completionPolicy.activeDeadlineSeconds", MsgDeadlineVsTimeout)>>
             ELSE IF cp.TTLSecondsAfterFinished # Nil /\ Deref(cp.TTLSecondsAfterFinished) > MaxTTLSecondsAfterFinished
             THEN <<Invalid(fldPath \o ".spec.completionPolicy.ttlSecondsAfterFinished", MsgTTL)>>
             ELSE <<>>
        ELSE <<Invalid(fldPath \o ".spec.completionPolicy.type", MsgCompletionType)>>

\* plausible slip: the image errors are appended and validation carries on
validateImageListPullJobTemplateSpecAccumulating(ilp, fldPath) ==
    IF selectorErrs(ilp.Spec, fldPath) # <<>> THEN selectorErrs(ilp.Spec, fldPath)
    ELSE IF podSelectorErrs(ilp.Spec, fldPath) # <<>> THEN podSelectorErrs(ilp.Spec, fldPath)
    ELSE imagesErrs(ilp.Spec, fldPath) \o completionPolicyErrs(ilp.Spec, fldPath)

validateImageListPullJobTemplateSpec(ilp, fldPath) ==
    IF selectorErrs(ilp.Spec, fldPath) # <<>> THEN selectorErrs(ilp.Spec, fldPath)
    ELSE IF podSelectorErrs(ilp.Spec, fldPath) # <<>> THEN podSelectorErrs(ilp.Spec, fldPath)
    ELSE IF imagesErrs(ilp.Spec, fldPath) # <<>> THEN imagesErrs(ilp.Spec, fldPath)
    ELSE completionPolicyErrs(ilp.Spec, fldPath)

(* ------------------------ Schedule Validator -------------------------- *)

HasPrefix(s, prefix) == Len(s) >= Len(prefix) /\ SubSeq(s, 1, Len(prefix)) = prefix

\* strings.Index for a one-character needle, 1-based; 0 when absent (Go: -1)
Index(s, c) == IF \E i \in 1..Len(s) : s[i] = c THEN CHOOSE i \in 1..Len(s) : s[i] = c /\ \A j \in 1..(i - 1) : s[j] # c ELSE 0

\* len(strings.Fields(s))
FieldCount(s) == Cardinality({i \in 1..Len(s) : s[i] # " " /\ (i = 1 \/ s[i - 1] = " ")})

CronFieldChars == {"*", "/", "-", ",", "?", "0", "1", "2", "3", "4", "5", "6", "7", "8", "9"}

\* the five fields of a standard expression; a field's syntax is reduced to its character set
ParseFields(s) == IF FieldCount(s) = 5 /\ \A i \in 1..Len(s) : s[i] \in CronFieldChars \cup {" "} THEN "ok" ELSE "error"

\* cron.ParseStandard: "ok", "error" (a returned error) or "panic" (a runtime
\* fault: a TZ=/CRON_TZ= prefix with no space after it slices spec[eq+1 : -1])
ParseStandard(spec) ==
    IF Len(spec) = 0 THEN "error"
    ELSE IF HasPrefix(spec, <<"T", "Z", "=">>) \/ HasPrefix(spec, <<"C", "R", "O", "N", "_", "T", "Z", "=">>)
    THEN LET i == Index(spec, " ")
             eq == Index(spec, "=")
         IN  IF i = 0 THEN "panic"
             ELSE IF ~LoadLocation(SubSeq(spec, eq + 1, i - 1)) THEN "error"
             ELSE ParseFields(SubSeq(spec, i + 1, Len(spec)))
    ELSE ParseFields(spec)

MsgCronPanic == "invalid cron schedule: runtime error: slice bounds out of range"

MsgCronError == "cron: expression does not parse"

MsgScheduleEmpty == "schedule cannot be empty, please provide valid cron schedule."

MsgBothTimeZones == "cannot use both timeZone field and TZ or CRON_TZ in schedule"

\* A call that can end in a Go panic returns [Panicked, ...]: Panicked means the
\* panic left the function and unwinds its caller.

\* plausible slip: the deferred recover is missing
validateCronScheduleNoRecover(schedule) == [Panicked |-> ParseStandard(schedule) = "panic", Err |-> IF ParseStandard(schedule) = "error" THEN Ptr(MsgCronError) ELSE Nil]

validateCronSchedule(schedule) ==
    LET parsed == ParseStandard(schedule)
    IN  [Panicked |-> FALSE,
         Err |-> IF parsed = "panic" THEN Ptr(MsgCronPanic)
                 ELSE IF parsed = "error" THEN Ptr(MsgCronError)
                 ELSE Nil]

validateAdvancedCronJobSpecSchedule(spec, fldPath) ==
    LET cronResult == validateCronSchedule(spec.Schedule)
    IN  IF cronResult.Panicked THEN [Panicked |-> TRUE, Errs |-> <<>>]
        ELSE [Panicked |-> FALSE,
              Errs |-> (IF Len(spec.Schedule) = 0 THEN <<Invalid(fldPath \o ".schedule", MsgScheduleEmpty)>> ELSE <<>>)
                       \o (IF cronResult.Err # Nil THEN <<Invalid(fldPath \o ".schedule", Deref(cronResult.Err))>> ELSE <<>>)
                       \o (IF Contains(spec.Schedule, StrTZ) /\ spec.TimeZone # Nil THEN <<Invalid(fldPath \o ".schedule", MsgBothTimeZones)>> ELSE <<>>)]

(* -------------------- Template Selector/Validator --------------------- *)

MsgConvertFailed == "Convert_v1_PodTemplateSpec_To_core_PodTemplateSpec failed"

MsgImageRequired == "Required value"

MsgMustHaveOne == "spec must have one template, either JobTemplate or BroadcastJobTemplate or ImageListPullJobTemplate should be provided"

MsgOnlyOne == "spec can have only one template, either JobTemplate or BroadcastJobTemplate or ImageListPullJobTemplate should be provided"

MsgConcurrencyPolicy == "concurrencyPolicy should be Replace or Forbid"

\* corev1.Convert_v1_PodTemplateSpec_To_core_PodTemplateSpec: TRUE when it returns no error
convertPodTemplateSpec(template) == ~template.ConvertErr

\* apivalidation.ValidatePodTemplateSpec, reduced to the container image being required
ValidatePodTemplateSpec(template, fldPath) == IF template.Image = "" THEN <<Required(fldPath \o ".spec.containers[0].image", MsgImageRequired)>> ELSE <<>>

\* fldPath.Root() of a path below "spec"
Root(fldPath) == "spec"

validateJobTemplateSpec(jobSpec, fldPath) ==
    IF ~convertPodTemplateSpec(jobSpec.Spec.Template)
    THEN <<Invalid(Root(fldPath), MsgConvertFailed)>>
    ELSE ValidatePodTemplateSpec(jobSpec.Spec.Template, fldPath \o ".template")

validateBroadcastJobTemplateSpec(brJobSpec, fldPath) ==
    IF ~convertPodTemplateSpec(brJobSpec.Spec.Template)
    THEN <<Invalid(Root(fldPath), MsgConvertFailed)>>
    ELSE ValidatePodTemplateSpec(brJobSpec.Spec.Template, fldPath \o ".template")

\* lines 190-209: the number of populated template variants
templateCount(spec) ==
    (IF spec.Template.JobTemplate # Nil THEN 1 ELSE 0)
    + (IF spec.Template.BroadcastJobTemplate # Nil THEN 1 ELSE 0)
    + (IF spec.Template.ImageListPullJobTemplate # Nil THEN 1 ELSE 0)

\* lines 190-209: the errors of the populated variants' sub-validators
perKindErrs(spec, fldPath) ==
    (IF spec.Template.JobTemplate # Nil
     THEN validateJobTemplateSpec(Deref(spec.Template.JobTemplate), fldPath) ELSE <<>>)
    \o (IF spec.Template.BroadcastJobTemplate # Nil
        THEN validateBroadcastJobTemplateSpec(Deref(spec.Template.BroadcastJobTemplate), fldPath) ELSE <<>>)
    \o (IF spec.Template.ImageListPullJobTemplate # Nil
        THEN (IF spec.ConcurrencyPolicy \in {"Replace", "Forbid"} THEN <<>>
              ELSE <<Invalid(fldPath \o ".spec.concurrencyPolicy", MsgConcurrencyPolicy)>>)
             \o validateImageListPullJobTemplateSpec(Deref(spec.Template.ImageListPullJobTemplate), fldPath \o ".template.imageListPullJobTemplate")
        ELSE <<>>)

\* plausible slip: the exclusivity check is skipped once a sub-validator has failed
validateAdvancedCronJobSpecTemplateSkipping(spec, fldPath) ==
    perKindErrs(spec, fldPath)
    \o (IF perKindErrs(spec, fldPath) # <<>> THEN <<>>
        ELSE IF templateCount(spec) = 0 THEN <<Forbidden(fldPath \o ".template", MsgMustHaveOne)>>
        ELSE IF templateCount(spec) > 1 THEN <<Forbidden(fldPath \o ".template", MsgOnlyOne)>>
        ELSE <<>>)

validateAdvancedCronJobSpecTemplate(spec, fldPath) ==
    perKindErrs(spec, fldPath)
    \o (IF templateCount(spec) = 0 THEN <<Forbidden(fldPath \o ".template", MsgMustHaveOne)>>
        ELSE IF templateCount(spec) > 1 THEN <<Forbidden(fldPath \o ".template", MsgOnlyOne)>>
        ELSE <<>>)

(* --------------------------- spec validation -------------------------- *)

MsgNonNegative == "must be greater than or equal to 0"

\* apivalidation.ValidateNonnegativeField
ValidateNonnegativeField(value, fldPath) == IF value < 0 THEN <<Invalid(fldPath, MsgNonNegative)>> ELSE <<>>

validateAdvancedCronJobSpec(spec, fldPath) ==
    LET scheduleResult == validateAdvancedCronJobSpecSchedule(spec, fldPath)
    IN  IF scheduleResult.Panicked THEN [Panicked |-> TRUE, Errs |-> <<>>]
        ELSE [Panicked |-> FALSE,
              Errs |-> scheduleResult.Errs
                       \o validateAdvancedCronJobSpecTemplate(spec, fldPath)
                       \o (IF spec.StartingDeadlineSeconds # Nil THEN ValidateNonnegativeField(Deref(spec.StartingDeadlineSeconds), fldPath \o ".startingDeadlineSeconds") ELSE <<>>)
                       \o (IF spec.SuccessfulJobsHistoryLimit # Nil THEN ValidateNonnegativeField(Deref(spec.SuccessfulJobsHistoryLimit), fldPath \o ".successfulJobsHistoryLimit") ELSE <<>>)
                       \o (IF spec.FailedJobsHistoryLimit # Nil THEN ValidateNonnegativeField(Deref(spec.FailedJobsHistoryLimit), fldPath \o ".failedJobsHistoryLimit") ELSE <<>>)
                       \o validateTimeZone(spec.TimeZone, fldPath \o ".timeZone")]

(* ---------------------------- object meta ---------------------------- *)

AdvancedCronJobNameMaxLen == 63

Letters == {"a", "b", "c", "d", "e", "f", "g", "h", "i", "j", "k", "l", "m", "n", "o", "p", "q", "r", "s", "t", "u", "v", "w", "x", "y", "z"}

UpperLetters == {"A", "B", "C", "D", "E", "F", "G", "H", "I", "J", "K", "L", "M", "N", "O", "P", "Q", "R", "S", "T", "U", "V", "W", "X", "Y", "Z"}

Digits == {"0", "1", "2", "3", "4", "5", "6", "7", "8", "9"}

\* the character class of validAdvancedCronJobNameFmt, ^[a-zA-Z0-9\-]+$
NameChars == Letters \cup UpperLetters \cup Digits \cup {"-"}

MsgNameFormat == "AdvancedCronJob name must consist of alphanumeric characters or '-'"

MsgNameTooLong == "must be no more than 63 characters"

MsgNameRequired == "name or generateName is required"

MsgNamespaceRequired == "Required value"

MsgImmutable == "field is immutable"

validateAdvancedCronJobName(name, prefix) ==
    (IF ~(Len(name) > 0 /\ \A i \in 1..Len(name) : name[i] \in NameChars) THEN <<MsgNameFormat>> ELSE <<>>)
    \o (IF Len(name) > AdvancedCronJobNameMaxLen THEN <<MsgNameTooLong>> ELSE <<>>)

\* genericvalidation.ValidateObjectMeta with requiresNamespace = true, reduced to name and namespace
ValidateObjectMeta(meta, fldPath) ==
    (IF Len(meta.Name) = 0
     THEN <<Required(fldPath \o ".name", MsgNameRequired)>>
     ELSE [k \in 1..Len(validateAdvancedCronJobName(meta.Name, FALSE)) |-> Invalid(fldPath \o ".name", validateAdvancedCronJobName(meta.Name, FALSE)[k])])
    \o (IF Len(meta.Namespace) = 0 THEN <<Required(fldPath \o ".namespace", MsgNamespaceRequired)>> ELSE <<>>)

\* apivalidation.ValidateObjectMetaUpdate, reduced to the immutable name and namespace
ValidateObjectMetaUpdate(newMeta, oldMeta, fldPath) ==
    (IF newMeta.Name # oldMeta.Name THEN <<Invalid(fldPath \o ".name", MsgImmutable)>> ELSE <<>>)
    \o (IF newMeta.Namespace # oldMeta.Namespace THEN <<Invalid(fldPath \o ".namespace", MsgImmutable)>> ELSE <<>>)

validateAdvancedCronJob(obj) ==
    LET specResult == validateAdvancedCronJobSpec(obj.Spec, "spec")
    IN  IF specResult.Panicked THEN [Panicked |-> TRUE, Errs |-> <<>>]
        ELSE [Panicked |-> FALSE, Errs |-> ValidateObjectMeta(obj.ObjectMeta, "metadata") \o specResult.Errs]

(* ---------------------------- Update Guard ---------------------------- *)

MsgForbiddenFields == "updates to advancedcronjob spec for fields other than 'imageListPullJobTemplate', 'schedule', 'concurrencyPolicy', 'successfulJobsHistoryLimit', 'failedJobsHistoryLimit', 'startingDeadlineSeconds', 'timeZone' and 'paused' are forbidden"

\* plausible slip: paused is left out of the fields restored from the old object
restoreMutableFieldsWithoutPaused(newSpec, oldSpec) ==
    [newSpec EXCEPT !.Schedule = oldSpec.Schedule,
                    !.ConcurrencyPolicy = oldSpec.ConcurrencyPolicy,
                    !.SuccessfulJobsHistoryLimit = oldSpec.SuccessfulJobsHistoryLimit,
                    !.FailedJobsHistoryLimit = oldSpec.FailedJobsHistoryLimit,
                    !.StartingDeadlineSeconds = oldSpec.StartingDeadlineSeconds,
                    !.TimeZone = oldSpec.TimeZone,
                    !.Template.ImageListPullJobTemplate = IF oldSpec.Template.ImageListPullJobTemplate # Nil THEN oldSpec.Template.ImageListPullJobTemplate ELSE @]

\* plausible slip: the image-pull-job template is restored from the old object unconditionally
restoreMutableFieldsUnconditional(newSpec, oldSpec) ==
    [newSpec EXCEPT !.Schedule = oldSpec.Schedule,
                    !.ConcurrencyPolicy = oldSpec.ConcurrencyPolicy,
                    !.SuccessfulJobsHistoryLimit = oldSpec.SuccessfulJobsHistoryLimit,
                    !.FailedJobsHistoryLimit = oldSpec.FailedJobsHistoryLimit,
                    !.StartingDeadlineSeconds = oldSpec.StartingDeadlineSeconds,
                    !.Paused = oldSpec.Paused,
                    !.TimeZone = oldSpec.TimeZone,
                    !.Template.ImageListPullJobTemplate = oldSpec.Template.ImageListPullJobTemplate]

\* lines 332-342: the spec of the deep copy after the old object's mutable fields are written over it
restoreMutableFields(newSpec, oldSpec) ==
    [newSpec EXCEPT !.Schedule = oldSpec.Schedule,
                    !.ConcurrencyPolicy = oldSpec.ConcurrencyPolicy,
                    !.SuccessfulJobsHistoryLimit = oldSpec.SuccessfulJobsHistoryLimit,
                    !.FailedJobsHistoryLimit = oldSpec.FailedJobsHistoryLimit,
                    !.StartingDeadlineSeconds = oldSpec.StartingDeadlineSeconds,
                    !.Paused = oldSpec.Paused,
                    !.TimeZone = oldSpec.TimeZone,
                    !.Template.ImageListPullJobTemplate = IF oldSpec.Template.ImageListPullJobTemplate # Nil THEN oldSpec.Template.ImageListPullJobTemplate ELSE @]

\* apiequality.Semantic.DeepEqual on two specs; the model keeps one representation per value
SemanticDeepEqual(a, b) == a = b

validateAdvancedCronJobUpdate(newObj, old) ==
    LET specResult == validateAdvancedCronJobSpec(newObj.Spec, "spec")
    IN  IF specResult.Panicked THEN [Panicked |-> TRUE, Errs |-> <<>>]
        ELSE [Panicked |-> FALSE,
              Errs |-> ValidateObjectMetaUpdate(newObj.ObjectMeta, old.ObjectMeta, "metadata")
                       \o specResult.Errs
                       \o (IF ~SemanticDeepEqual(restoreMutableFields(newObj.Spec, old.Spec), old.Spec)
                           THEN <<Forbidden("spec", MsgForbiddenFields)>> ELSE <<>>)]

(* ----------------------- Cross-Version Normalizer --------------------- *)

V1beta1 == "v1beta1"

V1alpha1 == "v1alpha1"

NoTemplate == [JobTemplate |-> Nil, BroadcastJobTemplate |-> Nil, ImageListPullJobTemplate |-> Nil]

\* &appsv1beta1.AdvancedCronJob{}
ZeroObject ==
    [ObjectMeta |-> [Name |-> <<>>, Namespace |-> <<>>],
     Spec |-> [Schedule |-> <<>>, TimeZone |-> Nil, ConcurrencyPolicy |-> "", StartingDeadlineSeconds |-> Nil,
               SuccessfulJobsHistoryLimit |-> Nil, FailedJobsHistoryLimit |-> Nil, Paused |-> FALSE, Template |-> NoTemplate]]

MsgDecode == "couldn't decode the object"

MsgConvert == "failed to convert v1alpha1->v1beta1"

MsgUnsupportedVersion == "unsupported version"

\* h.Decoder.Decode / DecodeRaw followed, for v1alpha1, by ConvertTo; a raw
\* payload is [WellFormed, ConvertErr, Value]
decodeAs(raw, version) ==
    IF ~raw.WellFormed THEN [Err |-> Ptr(MsgDecode), Obj |-> ZeroObject]
    ELSE IF version = V1alpha1 /\ raw.ConvertErr THEN [Err |-> Ptr(MsgConvert), Obj |-> ZeroObject]
    ELSE [Err |-> Nil, Obj |-> raw.Value]

decodeAdvancedCronJob(request) ==
    IF request.Version \in {V1beta1, V1alpha1} THEN decodeAs(request.Object, request.Version)
    ELSE [Err |-> Nil, Obj |-> ZeroObject]

decodeAdvancedCronJobFromRaw(raw, version) ==
    IF version \in {V1beta1, V1alpha1} THEN decodeAs(raw, version)
    ELSE [Err |-> Ptr(MsgUnsupportedVersion), Obj |-> ZeroObject]

(* ------------------------ Admission Orchestrator ---------------------- *)

StatusBadRequest == 400

StatusUnprocessableEntity == 422

StatusOK == 200

\* admission.Errored
Errored(code, errs) == [Allowed |-> FALSE, Code |-> code, Errs |-> errs]

\* admission.ValidationResponse(true, "")
Accepted == [Allowed |-> TRUE, Code |-> StatusOK, Errs |-> <<>>]

\* plausible slip: the error of decoding the old object is dropped
HandleIgnoringOldDecodeError(request) ==
    LET decoded == decodeAdvancedCronJob(request)
    IN  IF decoded.Err # Nil
        THEN [Panicked |-> FALSE, Resp |-> Errored(StatusBadRequest, <<Deref(decoded.Err)>>), Calls |-> <<"decodeAdvancedCronJob">>]
        ELSE IF request.Operation = "CREATE"
        THEN LET v == validateAdvancedCronJob(decoded.Obj)
                 calls == <<"decodeAdvancedCronJob", "validateAdvancedCronJob">>
             IN  IF v.Panicked THEN [Panicked |-> TRUE, Resp |-> Nil, Calls |-> calls]
                 ELSE IF Len(v.Errs) > 0 THEN [Panicked |-> FALSE, Resp |-> Errored(StatusUnprocessableEntity, v.Errs), Calls |-> calls]
                 ELSE [Panicked |-> FALSE, Resp |-> Accepted, Calls |-> calls]
        ELSE IF request.Operation = "UPDATE"
        THEN LET decodedOld == decodeAdvancedCronJobFromRaw(request.OldObject, request.Version)
                 v == validateAdvancedCronJobUpdate(decoded.Obj, decodedOld.Obj)
                 calls == <<"decodeAdvancedCronJob", "decodeAdvancedCronJobFromRaw", "validateAdvancedCronJobUpdate">>
             IN  IF v.Panicked THEN [Panicked |-> TRUE, Resp |-> Nil, Calls |-> calls]
                 ELSE IF Len(v.Errs) > 0 THEN [Panicked |-> FALSE, Resp |-> Errored(StatusUnprocessableEntity, v.Errs), Calls |-> calls]
                 ELSE [Panicked |-> FALSE, Resp |-> Accepted, Calls |-> calls]
        ELSE [Panicked |-> FALSE, Resp |-> Accepted, Calls |-> <<"decodeAdvancedCronJob">>]

\* Handle: [Panicked, Resp, Calls], Calls being the functions Handle invoked, in order;
\* a panic leaves no response (Resp is Nil)
Handle(request) ==
    LET decoded == decodeAdvancedCronJob(request)
    IN  IF decoded.Err # Nil
        THEN [Panicked |-> FALSE, Resp |-> Errored(StatusBadRequest, <<Deref(decoded.Err)>>), Calls |-> <<"decodeAdvancedCronJob">>]
        ELSE IF request.Operation = "CREATE"
        THEN LET v == validateAdvancedCronJob(decoded.Obj)
                 calls == <<"decodeAdvancedCronJob", "validateAdvancedCronJob">>
             IN  IF v.Panicked THEN [Panicked |-> TRUE, Resp |-> Nil, Calls |-> calls]
                 ELSE IF Len(v.Errs) > 0 THEN [Panicked |-> FALSE, Resp |-> Errored(StatusUnprocessableEntity, v.Errs), Calls |-> calls]
                 ELSE [Panicked |-> FALSE, Resp |-> Accepted, Calls |-> calls]
        ELSE IF request.Operation = "UPDATE"
        THEN LET decodedOld == decodeAdvancedCronJobFromRaw(request.OldObject, request.Version)
             IN  IF decodedOld.Err # Nil
                 THEN [Panicked |-> FALSE, Resp |-> Errored(StatusBadRequest, <<Deref(decodedOld.Err)>>), Calls |-> <<"decodeAdvancedCronJob", "decodeAdvancedCronJobFromRaw">>]
                 ELSE LET v == validateAdvancedCronJobUpdate(decoded.Obj, decodedOld.Obj)
                          calls == <<"decodeAdvancedCronJob", "decodeAdvancedCronJobFromRaw", "validateAdvancedCronJobUpdate">>
                      IN  IF v.Panicked THEN [Panicked |-> TRUE, Resp |-> Nil, Calls |-> calls]
                          ELSE IF Len(v.Errs) > 0 THEN [Panicked |-> FALSE, Resp |-> Errored(StatusUnprocessableEntity, v.Errs), Calls |-> calls]
                          ELSE [Panicked |-> FALSE, Resp |-> Accepted, Calls |-> calls]
        ELSE [Panicked |-> FALSE, Resp |-> Accepted, Calls |-> <<"decodeAdvancedCronJob">>]

(* ------------------------------ inputs -------------------------------- *)

SchedChars == {"T", "Z", " ", "*"}

StringsUpTo(chars, n) == UNION {[1..k -> chars] : k \in 0..n}

\* every spelling of word that differs only in letter case
Casings(word) == {[i \in 1..Len(word) |-> IF up[i] THEN ToUpper(word[i]) ELSE ToLower(word[i])] : up \in [1..Len(word) -> BOOLEAN]}

FormatZones == {Nil, Ptr(<<>>), Ptr(StrUTC), Ptr(StrCET), Ptr(StrLocal), Ptr(StrMars), Ptr(<<"T", "Z">>)}

FormatInputs == {[Spec |-> [Schedule |-> s, TimeZone |-> z]] : s \in StringsUpTo(SchedChars, MaxSchedLen), z \in FormatZones}

ZoneNames == Casings(StrLocal) \cup Casings(<<"L", "o", "c", "a", "l", "e">>) \cup Casings(StrUTC) \cup {<<>>, StrCET, StrMars, <<"L", "o", "c", "a">>}

TimeZoneInputs == {Nil} \cup {Ptr(n) : n \in ZoneNames}

NameLists == {Nil, Ptr(<<"node-a">>), Ptr(<<"node-a", "node-b">>), Ptr(<<"node-a", "node-a">>)}

LabelInputs == {Nil, Ptr("app=web"), Ptr("app web")}

ExpressionInputs == {Nil, Ptr("zone In (a)"), Ptr("zone Near (a)")}

SelectorInputs == {Nil} \cup {Ptr([Names |-> n, MatchLabels |-> ml, MatchExpressions |-> me]) : n \in NameLists, ml \in LabelInputs, me \in ExpressionInputs}

PodSelectorInputs == {Nil} \cup {Ptr([MatchLabels |-> ml, MatchExpressions |-> me]) : ml \in LabelInputs, me \in ExpressionInputs}

ShortImageLists == StringsUpTo({"nginx", "redis:6", "Nginx:"}, MaxShortImages)

\* n distinct well-formed references
TaggedImages(n) == [i \in 1..n |-> TaggedImage(i)]

LongImageLists ==
    { TaggedImages(MaxImages),
      TaggedImages(MaxImages + 1),
      [TaggedImages(MaxImages) EXCEPT ![MaxImages] = TaggedImage(MaxImages - 1)],
      [TaggedImages(MaxImages) EXCEPT ![MaxImages] = "Nginx:"],
      [TaggedImages(MaxImages + 1) EXCEPT ![MaxImages + 1] = TaggedImage(1)],
      [TaggedImages(MaxImages + 1) EXCEPT ![1] = "Nginx:"] }

PullPolicyInputs == {Nil, Ptr([TimeoutSeconds |-> Nil]), Ptr([TimeoutSeconds |-> Ptr(600)]), Ptr([TimeoutSeconds |-> Ptr(MaxActiveDeadLineSeconds + 1)])}

DeadlineInputs == {Nil, Ptr(599), Ptr(600), Ptr(601), Ptr(MaxActiveDeadLineSeconds), Ptr(MaxActiveDeadLineSeconds + 1)}

TTLInputs == {Nil, Ptr(MaxTTLSecondsAfterFinished), Ptr(MaxTTLSecondsAfterFinished + 1)}

CompletionPolicyInputs == {[Type |-> t, ActiveDeadlineSeconds |-> d, TTLSecondsAfterFinished |-> ttl] : t \in {Always, "Never", ""}, d \in DeadlineInputs, ttl \in TTLInputs}

PlainCompletionPolicies == {[Type |-> t, ActiveDeadlineSeconds |-> d, TTLSecondsAfterFinished |-> Nil] : t \in {Always, "Never"}, d \in {Nil, Ptr(MaxActiveDeadLineSeconds + 1)}}

ImageListPullJob(sel, pod, images, pull, cp) == [Spec |-> [Selector |-> sel, PodSelector |-> pod, Images |-> images, PullPolicy |-> pull, CompletionPolicy |-> cp]]

ImageListPullJobInputs ==
    {ImageListPullJob(sel, pod, images, Nil, cp) : sel \in SelectorInputs, pod \in PodSelectorInputs, images \in {<<>>, <<"nginx">>}, cp \in PlainCompletionPolicies}
    \cup {ImageListPullJob(Nil, Nil, images, pull, cp) : images \in ShortImageLists, pull \in PullPolicyInputs, cp \in CompletionPolicyInputs}
    \cup {ImageListPullJob(Nil, Nil, images, Nil, cp) : images \in LongImageLists, cp \in PlainCompletionPolicies}

PodTemplateInputs == {[Image |-> "app:1", ConvertErr |-> FALSE], [Image |-> "", ConvertErr |-> FALSE], [Image |-> "app:1", ConvertErr |-> TRUE]}

\* a batchv1.JobTemplateSpec or BroadcastJobTemplateSpec around one pod template
TemplateSpec(podTemplate) == [Spec |-> [Template |-> podTemplate]]

JobTemplateInputs == {Nil} \cup {Ptr(TemplateSpec(t)) : t \in PodTemplateInputs}

SmallImageListPullJobs == {Nil} \cup {Ptr(ImageListPullJob(Nil, Nil, images, Nil, cp)) : images \in {<<>>, <<"nginx">>, <<"nginx", "nginx">>}, cp \in PlainCompletionPolicies}

MakeSpec(schedule, tz, policy, deadline, successful, failed, paused, template) ==
    [Schedule |-> schedule, TimeZone |-> tz, ConcurrencyPolicy |-> policy, StartingDeadlineSeconds |-> deadline,
     SuccessfulJobsHistoryLimit |-> successful, FailedJobsHistoryLimit |-> failed, Paused |-> paused, Template |-> template]

EveryMinute == <<"*", " ", "*", " ", "*", " ", "*", " ", "*">>

Hourly == <<"0", " ", "*", " ", "*", " ", "*", " ", "*">>

TemplateSpecInputs ==
    {MakeSpec(EveryMinute, Nil, policy, Nil, Nil, Nil, FALSE, [JobTemplate |-> j, BroadcastJobTemplate |-> b, ImageListPullJobTemplate |-> i]) :
        policy \in {"", "Allow", "Forbid", "Replace"}, j \in JobTemplateInputs, b \in JobTemplateInputs, i \in SmallImageListPullJobs}

GoodPodTemplate(image) == Ptr(TemplateSpec([Image |-> image, ConvertErr |-> FALSE]))

GoodImageListPullJob(image) == Ptr(ImageListPullJob(Nil, Nil, <<image>>, Nil, [Type |-> Always, ActiveDeadlineSeconds |-> Nil, TTLSecondsAfterFinished |-> Nil]))

UpdateTemplates ==
    {[JobTemplate |-> j, BroadcastJobTemplate |-> b, ImageListPullJobTemplate |-> i] :
        j \in {Nil, GoodPodTemplate("app:1"), GoodPodTemplate("app:2")},
        b \in {Nil, GoodPodTemplate("app:1"), GoodPodTemplate("app:2")},
        i \in {Nil, GoodImageListPullJob("nginx"), GoodImageListPullJob("redis:6")}}

NameOK == <<"a", "c", "j", "-", "1">>

MakeObject(name, sp) == [ObjectMeta |-> [Name |-> name, Namespace |-> <<"o", "p", "s">>], Spec |-> sp]

\* the stored object was admitted earlier: it has exactly one template
OldObjectInputs ==
    {MakeObject(NameOK, MakeSpec(EveryMinute, Nil, "Forbid", Nil, Nil, Ptr(1), FALSE, t)) :
        t \in {u \in UpdateTemplates : Cardinality({k \in DOMAIN u : u[k] # Nil}) = 1}}

NewObjectInputs ==
    {MakeObject(NameOK, MakeSpec(schedule, tz, policy, deadline, successful, failed, paused, t)) :
        schedule \in {EveryMinute, Hourly}, tz \in {Nil, Ptr(StrCET)}, policy \in {"Forbid", "Replace"},
        deadline \in {Nil, Ptr(30)}, successful \in {Nil, Ptr(3)}, failed \in {Ptr(1), Ptr(0 - 1)},
        paused \in BOOLEAN, t \in UpdateTemplates}

ScheduleInputs ==
    { EveryMinute,
      <<>>,
      <<"*", " ", "*", " ", "*">>,
      <<"T", "Z", "=", "U", "T", "C", " ", "*", " ", "*", " ", "*", " ", "*", " ", "*">>,
      <<"T", "Z", "=", "U", "T", "C">>,
      <<"C", "R", "O", "N", "_", "T", "Z", "=", "U", "T", "C">> }

NameInputs == {NameOK, <<"a", "_", "b">>, [i \in 1..(AdvancedCronJobNameMaxLen + 1) |-> "a"]}

RequestValues ==
    {MakeObject(name, MakeSpec(schedule, tz, "Forbid", Nil, Nil, Nil, FALSE, [JobTemplate |-> j, BroadcastJobTemplate |-> Nil, ImageListPullJobTemplate |-> Nil])) :
        name \in NameInputs, schedule \in ScheduleInputs, tz \in {Nil, Ptr(StrUTC)}, j \in {Nil, GoodPodTemplate("app:1"), GoodPodTemplate("app:2")}}

OldRequestValues ==
    {MakeObject(name, MakeSpec(EveryMinute, Nil, "Forbid", Nil, Nil, Nil, FALSE, [JobTemplate |-> GoodPodTemplate("app:1"), BroadcastJobTemplate |-> Nil, ImageListPullJobTemplate |-> Nil])) :
        name \in {NameOK, <<"a", "c", "j", "-", "2">>}}

Garbage == [WellFormed |-> FALSE, ConvertErr |-> FALSE, Value |-> ZeroObject]

RawInputs(values) == {Garbage} \cup {[WellFormed |-> TRUE, ConvertErr |-> c, Value |-> v] : c \in BOOLEAN, v \in values}

RequestInputs ==
    {[Operation |-> op, Version |-> version, Object |-> raw, OldObject |-> old] :
        op \in {"CREATE", "UPDATE", "DELETE", "CONNECT"}, version \in {V1beta1, V1alpha1, "v1"},
        raw \in RawInputs(RequestValues), old \in RawInputs(OldRequestValues)}

handlerVars == <<cronSpec, updObj, updOldObj, req, resp, invoked>>

\* no request is being handled
Idle ==
    /\ cronSpec = Nil
    /\ updObj = Nil
    /\ updOldObj = Nil
    /\ req = Nil
    /\ resp = Nil
    /\ invoked = <<>>

(* ------------------- specification: formatSchedule -------------------- *)

InitFormat ==
    /\ pc = "call"
    /\ acj \in FormatInputs
    /\ formatted = <<>>
    /\ timeZone = Nil
    /\ ilpJobSpec = Nil
    /\ Idle
    /\ allErrs = <<>>

FormatSchedule ==
    /\ pc = "call"
    /\ formatted' = formatSchedule(acj)
    /\ pc' = "return"
    /\ UNCHANGED <<acj, timeZone, ilpJobSpec, allErrs, handlerVars>>

NextFormat == FormatSchedule

SpecFormat == InitFormat /\ [][NextFormat]_vars

\* C10: formatSchedule returns "TZ=<zone> <schedule>" exactly when the schedule
\* has no "TZ" substring and timeZone is set and loadable, and the schedule
\* unchanged otherwise; so the result equals the input or contains "TZ", and
\* formatting the result again (same timeZone) leaves it unchanged.
FormatScheduleContract ==
    pc = "return" =>
        LET s == acj.Spec.Schedule
            z == acj.Spec.TimeZone
            prefixed == ~Contains(s, StrTZ) /\ z # Nil /\ LoadLocation(Deref(z))
        IN  /\ prefixed => formatted = <<"T", "Z", "=">> \o Deref(z) \o <<" ">> \o s
            /\ ~prefixed => formatted = s
            /\ formatted = s \/ Contains(formatted, StrTZ)
            /\ formatSchedule([Spec |-> [Schedule |-> formatted, TimeZone |-> z]]) = formatted

FormatSchedulePrefixedWitness ==
    /\ pc = "return"
    /\ acj.Spec.Schedule = <<"*", " ", "*">>
    /\ acj.Spec.TimeZone = Ptr(StrCET)
    /\ formatted = <<"T", "Z", "=", "C", "E", "T", " ", "*", " ", "*">>

(* ------------------ specification: validateTimeZone ------------------- *)

InitTimeZone ==
    /\ pc = "call"
    /\ acj = Nil
    /\ formatted = <<>>
    /\ timeZone \in TimeZoneInputs
    /\ ilpJobSpec = Nil
    /\ Idle
    /\ allErrs = <<>>

ValidateTimeZone ==
    /\ pc = "call"
    /\ allErrs' = validateTimeZone(timeZone, "spec.timeZone")
    /\ pc' = "return"
    /\ UNCHANGED <<acj, formatted, timeZone, ilpJobSpec, handlerVars>>

NextTimeZone == ValidateTimeZone

SpecTimeZone == InitTimeZone /\ [][NextTimeZone]_vars

\* C7 as stated: every casing of "Local" yields exactly one error, nil yields
\* none and the empty string exactly one.
LocalAnyCasingExactlyOneError ==
    pc = "return" =>
        /\ timeZone = Nil => Len(allErrs) = 0
        /\ timeZone = Ptr(<<>>) => Len(allErrs) = 1
        /\ (timeZone # Nil /\ EqualFold(Deref(timeZone), StrLocal)) => Len(allErrs) = 1

\* C7 amended: the exact string "Local" yields exactly one error; every other
\* casing yields two, the explicit-time-zone error followed by the zone lookup
\* failure; nil yields none and the empty string exactly one.
LocalCasingErrors ==
    pc = "return" =>
        /\ timeZone = Nil => allErrs = <<>>
        /\ timeZone = Ptr(<<>>) => allErrs = <<Invalid("spec.timeZone", MsgTimeZoneEmpty)>>
        /\ timeZone = Ptr(StrLocal) => allErrs = <<Invalid("spec.timeZone", MsgTimeZoneLocal)>>
        /\ (timeZone # Nil /\ EqualFold(Deref(timeZone), StrLocal) /\ Deref(timeZone) # StrLocal) =>
              allErrs = <<Invalid("spec.timeZone", MsgTimeZoneLocal), Invalid("spec.timeZone", MsgUnknownTimeZone)>>

LocalLowerCaseWitness ==
    /\ pc = "return"
    /\ timeZone = Ptr(<<"l", "o", "c", "a", "l">>)
    /\ Len(allErrs) = 2


(* -------- specification: validateImageListPullJobTemplateSpec --------- *)

ILPPath == "spec.template.imageListPullJobTemplate"

InitImageList ==
    /\ pc = "call"
    /\ acj = Nil
    /\ formatted = <<>>
    /\ timeZone = Nil
    /\ ilpJobSpec \in ImageListPullJobInputs
    /\ Idle
    /\ allErrs = <<>>

ValidateImageListPullJobTemplateSpec ==
    /\ pc = "call"
    /\ allErrs' = validateImageListPullJobTemplateSpec(ilpJobSpec, ILPPath)
    /\ pc' = "return"
    /\ UNCHANGED <<acj, formatted, timeZone, ilpJobSpec, handlerVars>>

NextImageList == ValidateImageListPullJobTemplateSpec

SpecImageList == InitImageList /\ [][NextImageList]_vars

\* the template passes the selector, podSelector and image rules
PassesSelectorAndImages(ilp) ==
    /\ selectorErrs(ilp.Spec, ILPPath) = <<>>
    /\ podSelectorErrs(ilp.Spec, ILPPath) = <<>>
    /\ Len(ilp.Spec.Images) \in 1..MaxImages
    /\ Cardinality(Range(ilp.Spec.Images)) = Len(ilp.Spec.Images)
    /\ \A i \in 1..Len(ilp.Spec.Images) : NormalizeImageRef(ilp.Spec.Images[i])

BothDeadlineAndTimeout(ilp) ==
    /\ ilp.Spec.CompletionPolicy.ActiveDeadlineSeconds # Nil
    /\ ilp.Spec.PullPolicy # Nil
    /\ Deref(ilp.Spec.PullPolicy).TimeoutSeconds # Nil

\* C8: for a template that passes the selector and image checks with
\* completionPolicy.type = Always, activeDeadlineSeconds above 86400 is
\* rejected, a template with both activeDeadlineSeconds and timeoutSeconds is
\* accepted only if the deadline is strictly greater than the timeout (equal
\* values are rejected), ttlSecondsAfterFinished above 259200 is rejected; any
\* other type yields only the invalid-type error.
CompletionPolicyBounds ==
    (pc = "return" /\ PassesSelectorAndImages(ilpJobSpec)) =>
        LET cp == ilpJobSpec.Spec.CompletionPolicy
        IN  IF cp.Type = Always
            THEN /\ (cp.ActiveDeadlineSeconds # Nil /\ Deref(cp.ActiveDeadlineSeconds) > 86400) => allErrs # <<>>
                 /\ (BothDeadlineAndTimeout(ilpJobSpec) /\ allErrs = <<>>) =>
                        Deref(cp.ActiveDeadlineSeconds) > Deref(Deref(ilpJobSpec.Spec.PullPolicy).TimeoutSeconds)
                 /\ (cp.TTLSecondsAfterFinished # Nil /\ Deref(cp.TTLSecondsAfterFinished) > 259200) => allErrs # <<>>
            ELSE allErrs = <<Invalid(ILPPath \o ".spec.completionPolicy.type", MsgCompletionType)>>

\* C9: once the selector and podSelector rules pass, the image rules are tried
\* in the order empty, more than 255, duplicate, invalid reference; the first
\* violated one is the only error returned (no completion-policy error joins
\* it), the validator never returns more than one error, and a duplicate-free
\* list of 1..255 well-formed references yields no image error.
ImageRulesShortCircuit ==
    pc = "return" =>
        LET images == ilpJobSpec.Spec.Images
            imgPath == ILPPath \o ".spec.images"
            selectorsPass == selectorErrs(ilpJobSpec.Spec, ILPPath) = <<>> /\ podSelectorErrs(ilpJobSpec.Spec, ILPPath) = <<>>
            duplicate == Cardinality(Range(images)) # Len(images)
            invalid == {i \in 1..Len(images) : ~NormalizeImageRef(images[i])}
        IN  /\ Len(allErrs) <= 1
            /\ selectorsPass =>
                  IF Len(images) = 0 THEN allErrs = <<Invalid(imgPath, MsgImageEmpty)>>
                  ELSE IF Len(images) > 255 THEN allErrs = <<Invalid(imgPath, MsgTooManyImages)>>
                  ELSE IF duplicate THEN allErrs = <<Invalid(imgPath, MsgDuplicateImages)>>
                  ELSE IF invalid # {} THEN \E i \in invalid : allErrs = <<Invalid(imgPath, MsgInvalidImage \o images[i])>>
                  ELSE \A k \in 1..Len(allErrs) : allErrs[k].Field # imgPath

\* a list that is too long, holds a duplicate and would fail the type check is
\* reported as too long only
TooManyImagesWitness ==
    /\ pc = "return"
    /\ Len(ilpJobSpec.Spec.Images) = MaxImages + 1
    /\ Cardinality(Range(ilpJobSpec.Spec.Images)) = MaxImages
    /\ ilpJobSpec.Spec.CompletionPolicy.Type = "Never"
    /\ allErrs = <<Invalid(ILPPath \o ".spec.images", MsgTooManyImages)>>


(* ----------- specification: validateAdvancedCronJobSpecTemplate ------- *)

InitTemplate ==
    /\ pc = "call"
    /\ acj = Nil
    /\ formatted = <<>>
    /\ timeZone = Nil
    /\ ilpJobSpec = Nil
    /\ cronSpec \in TemplateSpecInputs
    /\ updObj = Nil
    /\ updOldObj = Nil
    /\ req = Nil
    /\ resp = Nil
    /\ invoked = <<>>
    /\ allErrs = <<>>

ValidateAdvancedCronJobSpecTemplate ==
    /\ pc = "call"
    /\ allErrs' = validateAdvancedCronJobSpecTemplate(cronSpec, "spec")
    /\ pc' = "return"
    /\ UNCHANGED <<acj, formatted, timeZone, ilpJobSpec, handlerVars>>

NextTemplate == ValidateAdvancedCronJobSpecTemplate

SpecTemplate == InitTemplate /\ [][NextTemplate]_vars

PopulatedVariants(sp) ==
    Cardinality({k \in {"JobTemplate", "BroadcastJobTemplate", "ImageListPullJobTemplate"} : sp.Template[k] # Nil})

IsExclusivityError(e) == e.Type = "FieldValueForbidden" /\ e.Field = "spec.template"

\* C3: validateAdvancedCronJobSpecTemplate returns a Forbidden error on
\* spec.template exactly when the number of populated template variants is not
\* one ("must have one" for zero, "can have only one" for two or three),
\* whatever the per-kind sub-validators returned.
TemplateExclusivity ==
    pc = "return" =>
        LET exclusivity == SelectSeq(allErrs, IsExclusivityError)
        IN  IF PopulatedVariants(cronSpec) = 0 THEN exclusivity = <<Forbidden("spec.template", MsgMustHaveOne)>>
            ELSE IF PopulatedVariants(cronSpec) >= 2 THEN exclusivity = <<Forbidden("spec.template", MsgOnlyOne)>>
            ELSE exclusivity = <<>>

\* three populated variants, each failing its own sub-validator, and the exclusivity error
ExclusivityWithSubErrorsWitness ==
    /\ pc = "return"
    /\ PopulatedVariants(cronSpec) = 3
    /\ Len(allErrs) = 5
    /\ allErrs[5] = Forbidden("spec.template", MsgOnlyOne)

(* -------------- specification: validateAdvancedCronJobUpdate ---------- *)

InitUpdate ==
    /\ pc = "call"
    /\ acj = Nil
    /\ formatted = <<>>
    /\ timeZone = Nil
    /\ ilpJobSpec = Nil
    /\ cronSpec = Nil
    /\ updObj \in NewObjectInputs
    /\ updOldObj \in OldObjectInputs
    /\ req = Nil
    /\ resp = Nil
    /\ invoked = <<>>
    /\ allErrs = <<>>

ValidateAdvancedCronJobUpdate ==
    /\ pc = "call"
    /\ allErrs' = validateAdvancedCronJobUpdate(updObj, updOldObj).Errs
    /\ pc' = IF validateAdvancedCronJobUpdate(updObj, updOldObj).Panicked THEN "panic" ELSE "return"
    /\ UNCHANGED <<acj, formatted, timeZone, ilpJobSpec, handlerVars>>

NextUpdate == ValidateAdvancedCronJobUpdate

SpecUpdate == InitUpdate /\ [][NextUpdate]_vars

IsForbiddenFieldsError(e) == e.Type = "FieldValueForbidden" /\ e.Field = "spec"

ForbiddenFieldsErrors == Len(SelectSeq(allErrs, IsForbiddenFieldsError))

NewTemplate == updObj.Spec.Template

OldTemplate == updOldObj.Spec.Template

JobOrBroadcastChanged == NewTemplate.JobTemplate # OldTemplate.JobTemplate \/ NewTemplate.BroadcastJobTemplate # OldTemplate.BroadcastJobTemplate

\* C4 as stated: no forbidden-fields error when the specs differ only in
\* schedule, concurrencyPolicy, the two history limits, startingDeadlineSeconds,
\* paused and timeZone; exactly one when they differ in any other field.
OnlySevenFieldsMutable ==
    pc = "return" =>
        /\ NewTemplate = OldTemplate => ForbiddenFieldsErrors = 0
        /\ NewTemplate # OldTemplate => ForbiddenFieldsErrors = 1

\* C4 amended: no forbidden-fields error when the specs differ only in the
\* seven listed fields, nor when they also differ in imageListPullJobTemplate
\* and the old object has that template set; exactly one Forbidden error on
\* spec when jobTemplate or broadcastJobTemplate differs, or when
\* imageListPullJobTemplate differs and the old object has it unset.
MutableFieldsAllowList ==
    pc = "return" =>
        /\ NewTemplate = OldTemplate => ForbiddenFieldsErrors = 0
        /\ (~JobOrBroadcastChanged /\ OldTemplate.ImageListPullJobTemplate # Nil) => ForbiddenFieldsErrors = 0
        /\ JobOrBroadcastChanged => ForbiddenFieldsErrors = 1
        /\ (OldTemplate.ImageListPullJobTemplate = Nil /\ NewTemplate.ImageListPullJobTemplate # Nil) => ForbiddenFieldsErrors = 1
        /\ ForbiddenFieldsErrors = 1 => Forbidden("spec", MsgForbiddenFields) \in Range(allErrs)

\* every one of the seven fields changed, the template untouched, no forbidden-fields error
AllowListOnlyWitness ==
    /\ pc = "return"
    /\ NewTemplate = OldTemplate
    /\ updObj.Spec.Schedule # updOldObj.Spec.Schedule
    /\ updObj.Spec.Paused # updOldObj.Spec.Paused
    /\ updObj.Spec.TimeZone # updOldObj.Spec.TimeZone
    /\ updObj.Spec.ConcurrencyPolicy # updOldObj.Spec.ConcurrencyPolicy
    /\ ForbiddenFieldsErrors = 0

\* C5 as stated: an update that sets imageListPullJobTemplate on an object that
\* had none is tolerated, any change of jobTemplate or broadcastJobTemplate is
\* rejected.
UnsetToSetTolerated ==
    pc = "return" =>
        /\ (~JobOrBroadcastChanged /\ OldTemplate.ImageListPullJobTemplate = Nil /\ NewTemplate.ImageListPullJobTemplate # Nil) =>
              ForbiddenFieldsErrors = 0
        /\ JobOrBroadcastChanged => ForbiddenFieldsErrors = 1

\* C5 amended: the asymmetry runs the other way. When the old object has
\* imageListPullJobTemplate set, the new object may change or remove it without
\* a forbidden-fields error; setting it on an object that had none is rejected,
\* as is any change of jobTemplate or broadcastJobTemplate.
SetToAnythingTolerated ==
    pc = "return" =>
        /\ (~JobOrBroadcastChanged /\ OldTemplate.ImageListPullJobTemplate # Nil) => ForbiddenFieldsErrors = 0
        /\ (OldTemplate.ImageListPullJobTemplate = Nil /\ NewTemplate.ImageListPullJobTemplate # Nil) => ForbiddenFieldsErrors = 1
        /\ JobOrBroadcastChanged => ForbiddenFieldsErrors = 1

\* the image-pull-job template removed from an object that had one: tolerated
SetToUnsetWitness ==
    /\ pc = "return"
    /\ ~JobOrBroadcastChanged
    /\ OldTemplate.ImageListPullJobTemplate # Nil
    /\ NewTemplate.ImageListPullJobTemplate = Nil
    /\ ForbiddenFieldsErrors = 0

(* ------------------------ specification: Handle ----------------------- *)

InitHandle ==
    /\ pc = "call"
    /\ acj = Nil
    /\ formatted = <<>>
    /\ timeZone = Nil
    /\ ilpJobSpec = Nil
    /\ cronSpec = Nil
    /\ updObj = Nil
    /\ updOldObj = Nil
    /\ req \in RequestInputs
    /\ resp = Nil
    /\ invoked = <<>>
    /\ allErrs = <<>>

HandleRequest ==
    /\ pc = "call"
    /\ resp' = Handle(req).Resp
    /\ invoked' = Handle(req).Calls
    /\ pc' = IF Handle(req).Panicked THEN "panic" ELSE "return"
    /\ UNCHANGED <<acj, formatted, timeZone, ilpJobSpec, cronSpec, updObj, updOldObj, req, allErrs>>

NextHandle == HandleRequest

SpecHandle == InitHandle /\ [][NextHandle]_vars

KnownVersion == req.Version \in {V1beta1, V1alpha1}

\* the payload does not decode at the request's version
Undecodable(raw) == ~raw.WellFormed \/ (req.Version = V1alpha1 /\ raw.ConvertErr)

\* decodeAdvancedCronJob returns an error, or, for an update, decodeAdvancedCronJobFromRaw does
DecodeFailed ==
    \/ KnownVersion /\ Undecodable(req.Object)
    \/ req.Operation = "UPDATE" /\ (~KnownVersion \/ Undecodable(req.OldObject))

ValidationRan == "validateAdvancedCronJob" \in Range(invoked) \/ "validateAdvancedCronJobUpdate" \in Range(invoked)

\* the object Handle validates
DecodedObject == IF KnownVersion THEN req.Object.Value ELSE ZeroObject

ValidationErrs ==
    IF req.Operation = "CREATE" THEN validateAdvancedCronJob(DecodedObject).Errs
    ELSE validateAdvancedCronJobUpdate(DecodedObject, req.OldObject.Value).Errs

\* C1: a Create or Update request ends in exactly one of: rejected with 400
\* iff decoding the new object (or, for Update, the old object) returns an
\* error; rejected with 422 iff decoding succeeded and the validation error
\* list is non-empty; accepted with an empty message otherwise; validation
\* never runs after a decode failure.
AdmissionOutcome ==
    (pc = "return" /\ req.Operation \in {"CREATE", "UPDATE"}) =>
        /\ resp.Code \in {StatusBadRequest, StatusUnprocessableEntity, StatusOK}
        /\ resp.Code = StatusBadRequest <=> DecodeFailed
        /\ resp.Code = StatusUnprocessableEntity <=> (~DecodeFailed /\ Len(ValidationErrs) > 0)
        /\ resp.Code = StatusUnprocessableEntity => (~resp.Allowed /\ resp.Errs = ValidationErrs)
        /\ resp.Code = StatusBadRequest => ~resp.Allowed
        /\ resp.Code = StatusOK <=> resp = Accepted
        /\ DecodeFailed => ~ValidationRan

\* an update whose old object does not decode is a bad request, and nothing is validated
OldObjectUndecodableWitness ==
    /\ pc = "return"
    /\ req.Operation = "UPDATE"
    /\ KnownVersion
    /\ ~Undecodable(req.Object)
    /\ Undecodable(req.OldObject)
    /\ resp.Code = StatusBadRequest
    /\ ~ValidationRan

\* C2: a Create or Update request whose declared version is neither v1alpha1
\* nor v1beta1 is rejected with 400 and the unsupported-version error, and no
\* zero-valued object is validated.
UnsupportedVersionRejected ==
    (pc = "return" /\ req.Operation \in {"CREATE", "UPDATE"} /\ ~KnownVersion) =>
        /\ resp.Code = StatusBadRequest
        /\ resp.Errs = <<MsgUnsupportedVersion>>
        /\ ~ValidationRan

\* C6: whatever cron.ParseStandard does with the schedule (succeed, return an
\* error, panic), no panic leaves Handle; when the parser panics on the
\* schedule of the object under validation, the response is the 422 rejection
\* carrying an Invalid error on spec.schedule.
ParserFaultContained ==
    /\ pc # "panic"
    /\ (pc = "return" /\ ValidationRan /\ ParseStandard(DecodedObject.Spec.Schedule) = "panic") =>
          /\ resp.Code = StatusUnprocessableEntity
          /\ Invalid("spec.schedule", MsgCronPanic) \in Range(resp.Errs)

ParserPanicWitness ==
    /\ pc = "return"
    /\ req.Operation = "CREATE"
    /\ req.Object.Value.Spec.Schedule = <<"T", "Z", "=", "U", "T", "C">>
    /\ ParseStandard(req.Object.Value.Spec.Schedule) = "panic"
    /\ resp.Code = StatusUnprocessableEntity
    /\ Invalid("spec.schedule", MsgCronPanic) \in Range(resp.Errs)

=============================================================================
